---- MODULE Spec2Model ----
(***************************************************************************)
(* Closest pair of points by divide and conquer (closest_points.cpp).      *)
(*                                                                         *)
(* Coordinates are small integers.  Every double the program stores as a   *)
(* distance (ClosestResult::dist, delta) is carried here by its SQUARE:    *)
(* for integer coordinates dx*dx + dy*dy is exact, std::sqrt is strictly   *)
(* increasing on these values, and each comparison the code makes between  *)
(* a distance and a coordinate difference (d < best.dist,                  *)
(* dy >= best.dist, fabs(dx) < delta) is decided by the squares.           *)
(* std::numeric_limits<double>::infinity() is the value Infinity, ordered  *)
(* above every finite distance by DLess.                                   *)
(***************************************************************************)
EXTENDS Integers, Sequences, FiniteSets, TLC

VARIABLES pts, pc, stack, ret, result, delta

vars == <<pts, pc, stack, ret, result, delta>>

\* ------------------------------------------------------------------ bounds
MaxN == 7        \* longest input vector
MaxX == 2        \* x coordinates 0..MaxX
MaxY == 1        \* y coordinates 0..MaxY
MaxStrip == 4    \* longest strip handed directly to closestInStrip
MaxDelta == 6    \* largest finite (squared) delta handed directly to closestInStrip

\* ------------------------------------------------------------ data model
Point == [x : 0..MaxX, y : 0..MaxY]

StripPoint == [x : 0..MaxY, y : 0..MaxX]

Infinity == -1

Origin == [x |-> 0, y |-> 0]

\* a < b on distances (squares), with Infinity above every finite value
DLess(a, b) == a # Infinity /\ (b = Infinity \/ a < b)

\* v >= d for a coordinate difference v and a distance d
DiffGeq(v, d) == d # Infinity /\ v >= 0 /\ v * v >= d

\* fabs(v) < d for a coordinate difference v and a distance d
FabsLess(v, d) == d = Infinity \/ v * v < d

dist(p, q) ==
    LET dx == p.x - q.x
        dy == p.y - q.y
    IN  dx * dx + dy * dy

\* the first point stored twice
Pair_sameEnd(p, q, d) == [a |-> p, b |-> p, dist |-> d]

\* ClosestResult{p, q, d}
Pair(p, q, d) == [a |-> p, b |-> q, dist |-> d]

Sentinel == Pair(Origin, Origin, Infinity)

\* ---------------------------------------------------------------- helpers
RECURSIVE bruteLoop(_, _, _, _)
bruteLoop(v, i, j, best) ==
    IF i > Len(v) THEN best
    ELSE IF j > Len(v) THEN bruteLoop(v, i + 1, i + 2, best)
    ELSE LET d == dist(v[i], v[j])
         IN  bruteLoop(v, i, j + 1,
                       IF DLess(d, best.dist)
                       THEN Pair(v[i], v[j], d)
                       ELSE best)

bruteForce(v) == bruteLoop(v, 1, 2, Sentinel)

StripBreak(dy, bestDist) == DiffGeq(dy, bestDist)

RECURSIVE stripLoop(_, _, _, _)
stripLoop(s, i, j, best) ==
    IF i > Len(s) THEN best
    ELSE IF j > Len(s) \/ StripBreak(s[j].y - s[i].y, best.dist)
         THEN stripLoop(s, i + 1, i + 2, best)
    ELSE LET d == dist(s[i], s[j])
         IN  stripLoop(s, i, j + 1,
                       IF DLess(d, best.dist)
                       THEN Pair(s[i], s[j], d)
                       ELSE best)

\* best initialised as in bruteForce, not with delta
closestInStrip_fromInfinity(s, d) == stripLoop(s, 1, 2, Sentinel)

closestInStrip(s, d) == stripLoop(s, 1, 2, Pair(Origin, Origin, d))

\* the comparators of the two std::sort calls
LessX(a, b) == IF a.x # b.x THEN a.x < b.x ELSE a.y < b.y

LessY(a, b) == IF a.y # b.y THEN a.y < b.y ELSE a.x < b.x

\* std::sort: the permutation of s in the order of the comparator.  The place
\* of s[k] is the number of elements that go before it (equal elements, which
\* are equal points, in their order in s).
RankX(s, k) ==
    Cardinality({j \in DOMAIN s : LessX(s[j], s[k]) \/ (~LessX(s[k], s[j]) /\ j < k)}) + 1

SortX(s) == [i \in DOMAIN s |-> s[CHOOSE k \in DOMAIN s : RankX(s, k) = i]]

RankY(s, k) ==
    Cardinality({j \in DOMAIN s : LessY(s[j], s[k]) \/ (~LessY(s[k], s[j]) /\ j < k)}) + 1

SortY(s) == [i \in DOMAIN s |-> s[CHOOSE k \in DOMAIN s : RankY(s, k) = i]]

\* ------------------------------------------------------------- closestRec
\* base case only up to two points
IsBase_upTo2(n) == n <= 2

IsBase(n) == n <= 3

Mid(n) == n \div 2

\* XL(Px.begin(), Px.begin() + mid)
LeftHalf(Px, mid) == SubSeq(Px, 1, mid)

\* XR(Px.begin(), Px.end())
RightHalf_whole(Px, mid) == Px

\* XR(Px.begin() + mid, Px.end())
RightHalf(Px, mid) == SubSeq(Px, mid + 1, Len(Px))

\* &p == &midPoint: p refers to an element of Py, midPoint is a local copy
SameObject == FALSE

\* the side of the partition of Py the loop body pushes p to
Side(p, midPoint, XL) ==
    IF p.x < midPoint.x \/ (p.x = midPoint.x /\ p.y <= midPoint.y)
    THEN IF XL # <<>> /\ (p.x < midPoint.x \/ ~SameObject) THEN "L"
         ELSE IF p.x < midPoint.x THEN "L"
         ELSE IF p.x <= midPoint.x THEN "L" ELSE "R"
    ELSE "R"

PartL(Py, midPoint, XL) == SelectSeq(Py, LAMBDA p : Side(p, midPoint, XL) = "L")

PartR(Py, midPoint, XL) == SelectSeq(Py, LAMBDA p : Side(p, midPoint, XL) = "R")

\* <= in place of <
Better_orEqual(leftBest, rightBest) ==
    IF ~DLess(rightBest.dist, leftBest.dist) THEN leftBest ELSE rightBest

Better(leftBest, rightBest) ==
    IF DLess(leftBest.dist, rightBest.dist) THEN leftBest ELSE rightBest

\* midPoint.y in place of midPoint.x
InBand_midY(p, midPoint, d) == FabsLess(p.x - midPoint.y, d)

\* <= in place of <
InBand_orEqual(p, midPoint, d) == d = Infinity \/ (p.x - midPoint.x) * (p.x - midPoint.x) <= d

InBand(p, midPoint, d) == FabsLess(p.x - midPoint.x, d)

BuildStrip(Py, midPoint, d) == SelectSeq(Py, LAMBDA p : InBand(p, midPoint, d))

\* <= in place of <
Supersedes_orEqual(stripBest, best) == ~DLess(best.dist, stripBest.dist)

Supersedes(stripBest, best) == DLess(stripBest.dist, best.dist)

\* < 1 in place of < 2
TooFew_empty(v) == Len(v) < 1

TooFew(v) == Len(v) < 2

\* ------------------------------------------------------------------ state
Top == stack[Len(stack)]

Pop == SubSeq(stack, 1, Len(stack) - 1)

Init ==
    /\ pts = <<>>
    /\ pc = "input"
    /\ stack = <<>>
    /\ ret = <<>>
    /\ result = <<>>
    /\ delta = Infinity

\* readPoints: one more point of the input.  closestPair reads pts only
\* through the two sorts, so one sequence per multiset is enumerated, in
\* descending (x, y) order: both sorts have to reorder it.
AddPoint ==
    /\ pc = "input"
    /\ Len(pts) < MaxN
    /\ \E p \in Point :
         /\ IF pts = <<>> THEN TRUE ELSE ~LessX(pts[Len(pts)], p)
         /\ pts' = Append(pts, p)
    /\ UNCHANGED <<pc, stack, ret, result, delta>>

closestPairSmall ==
    /\ pc = "input"
    /\ TooFew(pts)
    /\ result' = <<Sentinel>>
    /\ pc' = "done"
    /\ UNCHANGED <<pts, stack, ret, delta>>

closestPairCall ==
    /\ pc = "input"
    /\ ~TooFew(pts)
    /\ stack' = <<[pc |-> "enter", Px |-> SortX(pts), Py |-> SortY(pts)]>>
    /\ pc' = "running"
    /\ UNCHANGED <<pts, ret, result, delta>>

closestRecBase ==
    /\ pc = "running"
    /\ stack # <<>>
    /\ Top.pc = "enter"
    /\ IsBase(Len(Top.Px))
    /\ ret' = <<bruteForce(Top.Px)>>
    /\ stack' = Pop
    /\ UNCHANGED <<pts, pc, result, delta>>

closestRecSplit ==
    /\ pc = "running"
    /\ stack # <<>>
    /\ Top.pc = "enter"
    /\ ~IsBase(Len(Top.Px))
    /\ LET Px == Top.Px
           Py == Top.Py
           n == Len(Px)
           mid == Mid(n)
           midPoint == Px[mid + 1]
           XL == LeftHalf(Px, mid)
           XR == RightHalf(Px, mid)
           YL == PartL(Py, midPoint, XL)
           YR == PartR(Py, midPoint, XL)
       IN  stack' = Pop \o
             << [pc |-> "left", Px |-> Px, Py |-> Py, midPoint |-> midPoint,
                 XL |-> XL, XR |-> XR, YL |-> YL, YR |-> YR],
                [pc |-> "enter", Px |-> XL, Py |-> YL] >>
    /\ UNCHANGED <<pts, pc, ret, result, delta>>

closestRecLeft ==
    /\ pc = "running"
    /\ stack # <<>>
    /\ Top.pc = "left"
    /\ stack' = Pop \o
         << [pc |-> "right", Px |-> Top.Px, Py |-> Top.Py, midPoint |-> Top.midPoint,
             XL |-> Top.XL, XR |-> Top.XR, YL |-> Top.YL, YR |-> Top.YR,
             leftBest |-> ret[1]],
            [pc |-> "enter", Px |-> Top.XR, Py |-> Top.YR] >>
    /\ ret' = <<>>
    /\ UNCHANGED <<pts, pc, result, delta>>

closestRecRight ==
    /\ pc = "running"
    /\ stack # <<>>
    /\ Top.pc = "right"
    /\ LET best == Better(Top.leftBest, ret[1])
       IN  stack' = Pop \o
             << [pc |-> "strip", Px |-> Top.Px, Py |-> Top.Py, midPoint |-> Top.midPoint,
                 leftBest |-> Top.leftBest, rightBest |-> ret[1],
                 best |-> best, delta |-> best.dist,
                 strip |-> BuildStrip(Top.Py, Top.midPoint, best.dist)] >>
    /\ ret' = <<>>
    /\ UNCHANGED <<pts, pc, result, delta>>

closestRecStrip ==
    /\ pc = "running"
    /\ stack # <<>>
    /\ Top.pc = "strip"
    /\ stack' = Pop \o
         << [pc |-> "merge", Px |-> Top.Px, Py |-> Top.Py, midPoint |-> Top.midPoint,
             leftBest |-> Top.leftBest, rightBest |-> Top.rightBest,
             best |-> Top.best, delta |-> Top.delta, strip |-> Top.strip,
             stripBest |-> closestInStrip(Top.strip, Top.delta)] >>
    /\ UNCHANGED <<pts, pc, ret, result, delta>>

closestRecReturn ==
    /\ pc = "running"
    /\ stack # <<>>
    /\ Top.pc = "merge"
    /\ ret' = <<IF Supersedes(Top.stripBest, Top.best) THEN Top.stripBest ELSE Top.best>>
    /\ stack' = Pop
    /\ UNCHANGED <<pts, pc, result, delta>>

closestPairReturn ==
    /\ pc = "running"
    /\ stack = <<>>
    /\ result' = ret
    /\ ret' = <<>>
    /\ pc' = "done"
    /\ UNCHANGED <<pts, stack, delta>>

\* bruteForce invoked directly on the input vector
bruteForceDirect ==
    /\ pc = "input"
    /\ result' = <<bruteForce(pts)>>
    /\ pc' = "doneBrute"
    /\ UNCHANGED <<pts, stack, ret, delta>>

Run ==
    \/ closestPairSmall
    \/ closestPairCall
    \/ closestRecBase
    \/ closestRecSplit
    \/ closestRecLeft
    \/ closestRecRight
    \/ closestRecStrip
    \/ closestRecReturn
    \/ closestPairReturn

Next ==
    \/ AddPoint
    \/ Run
    \/ bruteForceDirect

Spec == Init /\ [][Next]_vars

\* ------------------------------------------ closestInStrip called directly
\* one more point of a strip: any sequence in ascending y.  A strip is narrow
\* in x and long in y: its points take x in 0..MaxY and y in 0..MaxX.
AddStripPoint ==
    /\ pc = "input"
    /\ Len(pts) < MaxStrip
    /\ \E p \in StripPoint :
         /\ IF pts = <<>> THEN TRUE ELSE pts[Len(pts)].y <= p.y
         /\ pts' = Append(pts, p)
    /\ UNCHANGED <<pc, stack, ret, result, delta>>

closestInStripDirect ==
    /\ pc = "input"
    /\ \E d \in (0..MaxDelta) \cup {Infinity} :
         /\ delta' = d
         /\ result' = <<closestInStrip(pts, d)>>
    /\ pc' = "doneStrip"
    /\ UNCHANGED <<pts, stack, ret>>

NextStrip ==
    \/ AddStripPoint
    \/ closestInStripDirect

SpecStrip == Init /\ [][NextStrip]_vars

\* ------------------------------------------------------------- properties
Frames == {stack[i] : i \in DOMAIN stack}

Count(s, p) == Cardinality({i \in DOMAIN s : s[i] = p})

SameBag(s, t) == \A p \in Point \cup StripPoint : Count(s, p) = Count(t, p)

PairDists(v) == {dist(v[q[1]], v[q[2]]) : q \in {r \in (DOMAIN v) \X (DOMAIN v) : r[1] < r[2]}}

MinPairDist(v) == CHOOSE m \in PairDists(v) : \A e \in PairDists(v) : m <= e

\* r.a and r.b are the points at two distinct positions of v
TwoPositions(r, v) ==
    \E i \in DOMAIN v : \E j \in DOMAIN v : i # j /\ r.a = v[i] /\ r.b = v[j]

\* C1: for every input of n >= 2 points the distance closestPair returns is
\* the minimum, over all pairs of distinct input positions, of the Euclidean
\* distance, which is also the distance bruteForce returns on that input.
C1_MatchesBruteForce ==
    (pc = "done" /\ Len(pts) >= 2) =>
        /\ result[1].dist = MinPairDist(pts)
        /\ result[1].dist = bruteForce(pts).dist

\* closestPair has returned from an input that was split, with repeated x
\* coordinates, whose closest pair is not a pair of coincident points
C1_Witness ==
    /\ pc = "done"
    /\ Len(pts) >= 5
    /\ result[1].dist = MinPairDist(pts)
    /\ result[1].dist > 0

\* C2: closestPair on fewer than two points returns the result whose dist is
\* infinity, and never enters closestRec; bruteForce called directly on fewer
\* than two points returns the same infinite-distance result.
C2_InsufficientInput ==
    /\ (pc = "done" /\ Len(pts) < 2) => (result = <<Sentinel>> /\ result[1].dist = Infinity)
    /\ (pc = "doneBrute" /\ Len(pts) < 2) => result = <<Sentinel>>
    /\ Len(pts) < 2 => (pc # "running" /\ stack = <<>> /\ ret = <<>>)

C2_Witness == pc = "done" /\ Len(pts) = 1 /\ result[1].dist = Infinity

\* C3: for every input of n >= 2 points the result of closestPair has a finite
\* dist, its a and b are the points at two distinct positions of the input,
\* and dist is the distance between a and b; for n = 2 they are the two input
\* points.
C3_NoSentinelLeak ==
    (pc = "done" /\ Len(pts) >= 2) =>
        /\ result[1].dist # Infinity
        /\ TwoPositions(result[1], pts)
        /\ result[1].dist = dist(result[1].a, result[1].b)
        /\ Len(pts) = 2 => SameBag(<<result[1].a, result[1].b>>, pts)

\* closestPair has returned a pair that is not the (0,0) placeholder, from an
\* input that went through the strip
C3_Witness ==
    /\ pc = "done"
    /\ Len(pts) >= 4
    /\ result[1].a # Origin
    /\ result[1].b # Origin
    /\ result[1].dist > 0

\* C4 (as claimed): at every invocation of closestRec Py holds the same
\* multiset as Px, and in the recursive case YL holds the multiset of XL and
\* YR the multiset of XR.
C4_ViewsAgree ==
    \A f \in Frames :
        /\ SameBag(f.Py, f.Px)
        /\ f.pc \in {"left", "right"} =>
              /\ Len(f.YL) = Len(f.XL)
              /\ Len(f.YR) = Len(f.XR)
              /\ SameBag(f.YL, f.XL)
              /\ SameBag(f.YR, f.XR)

\* C5 (as claimed): every pair-result, returned or held, has
\* dist = dist(a, b).
IsDerived(r) == r.dist = dist(r.a, r.b)

C5_AlwaysDerived ==
    /\ \A i \in DOMAIN ret : IsDerived(ret[i])
    /\ \A i \in DOMAIN result : IsDerived(result[i])
    /\ \A f \in Frames :
          /\ f.pc \in {"right", "strip", "merge"} => IsDerived(f.leftBest)
          /\ f.pc \in {"strip", "merge"} => IsDerived(f.rightBest) /\ IsDerived(f.best)
          /\ f.pc = "merge" => IsDerived(f.stripBest)

\* C5 (amended): every pair-result that names a pair found has
\* dist = dist(a, b): the value bruteForce returns on two or more points, every
\* value closestRec returns or holds in leftBest, rightBest and best, the value
\* closestPair returns on two or more points, and the value closestInStrip
\* returns when it is strictly below delta.  The other results are
\* placeholders: (0,0), (0,0) with dist infinity from closestPair and
\* bruteForce on fewer than two points, and (0,0), (0,0) with dist delta from
\* closestInStrip when no pair of the strip is strictly closer than delta.
C5_DerivedUnlessPlaceholder ==
    /\ \A i \in DOMAIN ret : IsDerived(ret[i])
    /\ \A i \in DOMAIN result :
          IF Len(pts) >= 2 THEN IsDerived(result[i]) ELSE result[i] = Sentinel
    /\ \A f \in Frames :
          /\ f.pc \in {"right", "strip", "merge"} => IsDerived(f.leftBest)
          /\ f.pc \in {"strip", "merge"} => IsDerived(f.rightBest) /\ IsDerived(f.best)
          /\ f.pc = "merge" =>
                IF DLess(f.stripBest.dist, f.delta)
                THEN IsDerived(f.stripBest)
                ELSE f.stripBest = Pair(Origin, Origin, f.delta)

\* a strip call inside the recursion came back with the placeholder and a
\* nonzero delta, next to derived results
C5_Witness ==
    \E f \in Frames :
        /\ f.pc = "merge"
        /\ f.stripBest = Pair(Origin, Origin, f.delta)
        /\ f.delta > 0
        /\ IsDerived(f.best)
        /\ f.best.a # f.best.b

\* The steps a call of closestRec on n points takes: one in the base case,
\* five and those of its two calls otherwise.
RECURSIVE StepsOf(_)
StepsOf(n) == IF n <= 3 THEN 1 ELSE 5 + StepsOf(n \div 2) + StepsOf(n - (n \div 2))

\* the steps an activation still has to take, its pending right call included
StepsLeft(f) ==
    CASE f.pc = "enter" -> StepsOf(Len(f.Px))
      [] f.pc = "left" -> 4 + StepsOf(Len(f.XR))
      [] f.pc = "right" -> 3
      [] f.pc = "strip" -> 2
      [] f.pc = "merge" -> 1

RECURSIVE SumSteps(_)
SumSteps(stk) == IF stk = <<>> THEN 0 ELSE StepsLeft(Head(stk)) + SumSteps(Tail(stk))

Remaining == (IF pc = "running" THEN 1 ELSE 0) + SumSteps(stack)

Shrinks == \A i \in DOMAIN stack : i > 1 => Len(stack[i].Px) < Len(stack[i - 1].Px)

\* a step of closestPair can be taken: the activation on top of the stack is
\* at one of its steps and has the value of the call it waited for, or the
\* outermost call has returned its value to closestPair
CanStep ==
    pc = "running" =>
        IF stack = <<>>
        THEN Len(ret) = 1
        ELSE /\ Top.pc \in {"enter", "left", "right", "strip", "merge"}
             /\ Top.pc \in {"left", "right"} => Len(ret) = 1
             /\ Top.pc = "enter" => Len(Top.Px) >= 1

Returned == pc = "done" => (stack = <<>> /\ Len(result) = 1)

\* C6: closestPair is total.  Every recursive call of closestRec is on an
\* x-ordered view strictly smaller than its caller's; while closestPair runs a
\* step of it can always be taken (no call is stuck); every step while it runs
\* lowers by one the number of steps left, which is finite, so the computation
\* returns after that many steps; and when it has returned, to one result.
C6_Total ==
    [][/\ Shrinks /\ Shrinks'
       /\ CanStep /\ CanStep'
       /\ Returned /\ Returned'
       /\ pc = "running" => (Remaining >= 1 /\ Remaining' = Remaining - 1)]_vars

\* closestPair has returned from an input that was split twice
C6_Witness == pc = "done" /\ Len(pts) >= 7 /\ Len(result) = 1 /\ Remaining = 0

\* C7 (as claimed): best is the smaller of leftBest and rightBest, and on
\* equal distances it is leftBest.
C7_LeftWinsTies ==
    \A f \in Frames :
        f.pc \in {"strip", "merge"} =>
            /\ ~DLess(f.leftBest.dist, f.best.dist)
            /\ ~DLess(f.rightBest.dist, f.best.dist)
            /\ f.leftBest.dist = f.rightBest.dist => f.best = f.leftBest

BestOfHalves ==
    \A f \in Frames :
        f.pc \in {"strip", "merge"} =>
            /\ f.best \in {f.leftBest, f.rightBest}
            /\ ~DLess(f.leftBest.dist, f.best.dist)
            /\ ~DLess(f.rightBest.dist, f.best.dist)
            /\ f.leftBest.dist = f.rightBest.dist => f.best = f.rightBest
            /\ f.delta = f.best.dist

\* C7 (amended): best is the smaller-distance result of leftBest and
\* rightBest, and on equal distances it is rightBest; when the strip finds
\* nothing strictly smaller, closestRec returns that best.
C7_RightWinsTies ==
    [][/\ BestOfHalves /\ BestOfHalves'
       /\ (/\ stack # <<>>
           /\ Top.pc = "merge"
           /\ ~DLess(Top.stripBest.dist, Top.best.dist))
          => /\ ret' = <<Top.best>>
             /\ Top.leftBest.dist = Top.rightBest.dist => ret' = <<Top.rightBest>>]_vars

\* the two halves tie with different pairs
C7_Witness ==
    \E f \in Frames :
        /\ f.pc = "merge"
        /\ f.leftBest.dist = f.rightBest.dist
        /\ f.leftBest # f.rightBest
        /\ f.best = f.rightBest
        /\ ~DLess(f.stripBest.dist, f.best.dist)

\* C8: on a strip in ascending y closestInStrip returns
\* dist = min(delta, least distance over the pairs of distinct positions);
\* when some pair is strictly closer than delta, a and b are a pair of strip
\* elements at that least distance; when none is, dist is delta.
C8_StripMinimum ==
    pc = "doneStrip" =>
        LET r == result[1]
            D == PairDists(pts)
        IN  IF \E e \in D : DLess(e, delta)
            THEN /\ r.dist = MinPairDist(pts)
                 /\ \E i \in DOMAIN pts : \E j \in DOMAIN pts :
                       i < j /\ r.a = pts[i] /\ r.b = pts[j]
                 /\ dist(r.a, r.b) = r.dist
            ELSE r.dist = delta

\* the scan of the first point stops at its first neighbour, and a pair of
\* distinct points strictly closer than delta is found after it
C8_Witness ==
    /\ pc = "doneStrip"
    /\ Len(pts) >= 3
    /\ delta # Infinity
    /\ DiffGeq(pts[2].y - pts[1].y, delta)
    /\ DLess(result[1].dist, delta)
    /\ result[1].dist > 0

\* C9: the strip handed to closestInStrip is, in the order of Py, exactly the
\* points of Py whose x-distance from the dividing line is strictly less than
\* delta = min(leftBest.dist, rightBest.dist).
C9_StripIsBand ==
    \A f \in Frames :
        f.pc \in {"strip", "merge"} =>
            LET Mx == f.midPoint.x
                near(p) == (p.x - Mx) * (p.x - Mx) < f.delta
            IN  /\ f.delta # Infinity
                /\ f.delta \in {f.leftBest.dist, f.rightBest.dist}
                /\ f.delta <= f.leftBest.dist
                /\ f.delta <= f.rightBest.dist
                /\ f.midPoint = f.Px[(Len(f.Px) \div 2) + 1]
                /\ f.strip = SelectSeq(f.Py, near)

\* a strip that leaves out points of Py and keeps others
C9_Witness ==
    \E f \in Frames :
        /\ f.pc = "strip"
        /\ f.strip # <<>>
        /\ Len(f.strip) < Len(f.Py)
        /\ f.delta >= 1

\* C10: from closestPair on n >= 2 points every invocation of closestRec has
\* at least 2 points in Px, every base case runs on 2 or 3 points, and
\* leftBest.dist, rightBest.dist, delta and every returned dist are finite.
C10_NoInfinityInside ==
    /\ \A f \in Frames :
          /\ Len(f.Px) >= 2
          /\ (f.pc = "enter" /\ IsBase(Len(f.Px))) => Len(f.Px) \in {2, 3}
          /\ f.pc \in {"left", "right"} => (Len(f.XL) >= 2 /\ Len(f.XR) >= 2)
          /\ f.pc \in {"right", "strip", "merge"} => f.leftBest.dist # Infinity
          /\ f.pc \in {"strip", "merge"} =>
                (f.rightBest.dist # Infinity /\ f.delta # Infinity)
    /\ \A i \in DOMAIN ret : ret[i].dist # Infinity

\* a base case on an XR of 2 points two levels down
C10_Witness ==
    /\ Len(stack) = 3
    /\ Top.pc = "enter"
    /\ Len(Top.Px) = 2
    /\ stack[2].pc = "right"

====
